---- MODULE Spec2Model ----
(***************************************************************************)
(* A model of snark_linter.py: run_snark_linter and the passes it calls    *)
(* (the SnarkLinter tree visitor, the comment scan, the line-length scan   *)
(* and the import scan), and the merge of their findings.                  *)
(*                                                                         *)
(* A file is seen through the three views the program takes of it: what    *)
(* ast.parse makes of it (a SyntaxError with a line, or a tree), what      *)
(* tokenize makes of it (a token stream that may end in an exception) and  *)
(* its physical lines.  A tree is the sequence of its nodes in pre-order,  *)
(* each with its depth; text is a sequence of chunks [t, n]: n copies of   *)
(* the character (or keyword) t.  A finding is [line, msg, node]: msg is   *)
(* the message template, node the tree node the message names (0 for the   *)
(* text passes).                                                           *)
(***************************************************************************)
EXTENDS Integers, Sequences, FiniteSets

VARIABLES
    pc,              \* where run_snark_linter is
    error,           \* the exception that left run_snark_linter, or "none"
    file_exists,     \* os.path.exists(file_path)
    parse_ok,        \* ast.parse returned a tree
    err_lineno,      \* SyntaxError.lineno (0: None or 0, both falsy)
    tree,            \* the tree ast.parse returned
    tokens,          \* the tokens tokenize yields
    tok_fails,       \* tokenize raises after yielding them
    lines,           \* the physical lines of the file
    stack,           \* the visits in progress: [node, todo]
    loop_depth,      \* SnarkLinter.loop_depth
    issues,          \* SnarkLinter.issues
    comment_issues,
    length_issues,
    import_issues,
    result           \* what run_snark_linter returned

vars == <<pc, error, file_exists, parse_ok, err_lineno, tree, tokens, tok_fails,
          lines, stack, loop_depth, issues, comment_issues, length_issues,
          import_issues, result>>

inputs == <<file_exists, parse_ok, err_lineno, tree, tokens, tok_fails, lines>>

(***************************************************************************)
(* Bounds of the model.                                                    *)
(***************************************************************************)
MaxNodes == 3         \* statements of a tree of any shape
MaxChain == 4         \* statements of a tree that is one chain
RecursionLimit == 11  \* Python frames the visit may use
MaxNameLen == 3
MaxDocPad == 9        \* characters between a docstring's first and last
MaxIndent == 1
MaxLines == 2
MaxTokens == 2
MaxErrLine == 2

(***************************************************************************)
(* Program constants.                                                      *)
(***************************************************************************)
DocMinLen == 10        \* len(docstring) < 10
CommentTextLimit == 72 \* len(comment_text) > 72
CommentLineLimit == 72 \* len(raw_line) > 72
CodeLimit == 79        \* len(raw_line) > 79

(***************************************************************************)
(* Characters.  The classes are those of str.isupper, str.isalpha and of   *)
(* the regular expressions, over the characters the model draws from.      *)
(***************************************************************************)
UpperChars == {"A", "H"}
LowerChars == {"b", "i"}
DigitChars == {"1"}
PunctChars == {".", "!", "?"}

IsUpper(c) == c \in UpperChars
IsLower(c) == c \in LowerChars
IsDigit(c) == c \in DigitChars
IsAlpha(c) == IsUpper(c) \/ IsLower(c)
IsSpace(c) == c = " "

Last(s) == s[Len(s)]

Finding(line, msg, node) == [line |-> line, msg |-> msg, node |-> node]

(***************************************************************************)
(* CAPWORDS_REGEX and SNAKE_CASE_REGEX, as the automata re.match runs: a   *)
(* set of states after each character, accepting at the end of the name.   *)
(***************************************************************************)
\* ^[A-Z][a-zA-Z0-9]+(?:[A-Z0-9][a-zA-Z0-9]*)*$
\* 0: start, 1: after [A-Z], 2: in [a-zA-Z0-9]+, 3: in the group
CapWordsStep(q, c) ==
    CASE q = 0 -> IF IsUpper(c) THEN {1} ELSE {}
      [] q = 1 -> IF IsAlpha(c) \/ IsDigit(c) THEN {2} ELSE {}
      [] q = 2 -> (IF IsAlpha(c) \/ IsDigit(c) THEN {2} ELSE {})
                  \cup (IF IsUpper(c) \/ IsDigit(c) THEN {3} ELSE {})
      [] q = 3 -> IF IsAlpha(c) \/ IsDigit(c) THEN {3} ELSE {}

CapWordsAccept == {2, 3}

\* ^[a-z_][a-z0-9_]*$
SnakeCaseStep(q, c) ==
    CASE q = 0 -> IF IsLower(c) \/ c = "_" THEN {1} ELSE {}
      [] q = 1 -> IF IsLower(c) \/ IsDigit(c) \/ c = "_" THEN {1} ELSE {}

SnakeCaseAccept == {1}

RECURSIVE RunCapWords(_, _, _)
RunCapWords(states, name, i) ==
    IF i > Len(name) THEN states
    ELSE RunCapWords(UNION {CapWordsStep(q, name[i]) : q \in states}, name, i + 1)

RECURSIVE RunSnakeCase(_, _, _)
RunSnakeCase(states, name, i) ==
    IF i > Len(name) THEN states
    ELSE RunSnakeCase(UNION {SnakeCaseStep(q, name[i]) : q \in states}, name, i + 1)

MatchesCapWords(name) == RunCapWords({0}, name, 1) \cap CapWordsAccept # {}

MatchesSnakeCase(name) == RunSnakeCase({0}, name, 1) \cap SnakeCaseAccept # {}

(***************************************************************************)
(* ast.get_docstring: None without a leading string literal, else the      *)
(* literal cleaned by inspect.cleandoc.  The literals of the model are of  *)
(* one line, of which cleandoc strips the leading whitespace.  The code    *)
(* only asks `not docstring`, so None is the empty text here.              *)
(***************************************************************************)
RECURSIVE LStrip(_)
LStrip(s) == IF s # <<>> /\ IsSpace(Head(s)) THEN LStrip(Tail(s)) ELSE s

CleanDoc(text) == LStrip(text)

GetDocstring(node) == IF node.doc.has THEN CleanDoc(node.doc.text) ELSE <<>>

(***************************************************************************)
(* SnarkLinter._check_docstring_rules, and what ClassDef and FunctionDef    *)
(* visits do with the docstring.                                           *)
(***************************************************************************)
\* the three checks as one if / elif chain: at most one fires
CheckDocstringRules_ElseIf(docstring, lineno, n) ==
    IF Len(docstring) < DocMinLen THEN <<Finding(lineno, "doc_short", n)>>
    ELSE IF ~IsUpper(Head(docstring)) THEN <<Finding(lineno, "doc_cap", n)>>
    ELSE IF Last(docstring) \notin PunctChars THEN <<Finding(lineno, "doc_end", n)>>
    ELSE <<>>

\* the length test the wrong way round
CheckDocstringRules_Reversed(docstring, lineno, n) ==
    (IF Len(docstring) > DocMinLen
        THEN <<Finding(lineno, "doc_short", n)>> ELSE <<>>)
    \o (IF ~IsUpper(Head(docstring))
        THEN <<Finding(lineno, "doc_cap", n)>> ELSE <<>>)
    \o (IF Last(docstring) \notin PunctChars
        THEN <<Finding(lineno, "doc_end", n)>> ELSE <<>>)

CheckDocstringRules(docstring, lineno, n) ==
    (IF Len(docstring) < DocMinLen
        THEN <<Finding(lineno, "doc_short", n)>> ELSE <<>>)
    \o (IF ~IsUpper(Head(docstring))
        THEN <<Finding(lineno, "doc_cap", n)>> ELSE <<>>)
    \o (IF Last(docstring) \notin PunctChars
        THEN <<Finding(lineno, "doc_end", n)>> ELSE <<>>)

DocstringIssues(node, n) ==
    LET docstring == GetDocstring(node) IN
    IF docstring = <<>>
        THEN <<Finding(node.line, "doc_missing", n)>>
        ELSE CheckDocstringRules(docstring, node.line, n)

\* visit_ClassDef, up to its generic_visit
ClassDefIssues(node, n) ==
    (IF ~MatchesCapWords(node.name)
        THEN <<Finding(node.line, "class_name", n)>> ELSE <<>>)
    \o DocstringIssues(node, n)

\* the existence finding inside the branch of the name check
FunctionDefIssues_OnlyBadNames(node, n) ==
    (IF ~MatchesSnakeCase(node.name)
        THEN <<Finding(node.line, "function_exists", n),
               Finding(node.line, "function_name", n)>> ELSE <<>>)
    \o DocstringIssues(node, n)

\* visit_FunctionDef, up to its generic_visit
FunctionDefIssues(node, n) ==
    <<Finding(node.line, "function_exists", n)>>
    \o (IF ~MatchesSnakeCase(node.name)
        THEN <<Finding(node.line, "function_name", n)>> ELSE <<>>)
    \o DocstringIssues(node, n)

\* visit_Assign, up to its generic_visit: one finding per single-letter Name
RECURSIVE AssignIssues(_, _, _)
AssignIssues(node, n, k) ==
    IF k > Len(node.targets) THEN <<>>
    ELSE LET target == node.targets[k] IN
         (IF target.isName /\ Len(target.id) = 1 /\ IsAlpha(target.id[1])
             THEN <<Finding(node.line, "single_letter", n)>> ELSE <<>>)
         \o AssignIssues(node, n, k + 1)

\* visit_For / visit_While after the increment: depth is the new loop_depth
LoopIssues(node, n, depth, msg) ==
    IF depth > 1 THEN <<Finding(node.line, msg, n)>> ELSE <<>>

\* the decrement forgotten
LeaveLoop_Forgotten(depth) == depth

EnterLoop(depth) == depth + 1

LeaveLoop(depth) == depth - 1

(***************************************************************************)
(* Text: a sequence of chunks [t, n], n >= 1 copies of t.  t is a          *)
(* character class ("sp" a blank, "nl" a line end, "hash" the comment      *)
(* marker, "comma", "ch" any other character) or a keyword.                *)
(***************************************************************************)
Width(t) == CASE t = "import" -> 6 [] t = "from" -> 4 [] OTHER -> 1

RECURSIVE TextLen(_)
TextLen(s) == IF s = <<>> THEN 0 ELSE Width(Head(s).t) * Head(s).n + TextLen(Tail(s))

IsWs(t) == t \in {"sp", "nl"}

RECURSIVE LStripWs(_)
LStripWs(s) == IF s # <<>> /\ IsWs(Head(s).t) THEN LStripWs(Tail(s)) ELSE s

RECURSIVE RStripWs(_)
RStripWs(s) ==
    IF s # <<>> /\ IsWs(Last(s).t) THEN RStripWs(SubSeq(s, 1, Len(s) - 1)) ELSE s

StripWs(s) == RStripWs(LStripWs(s))

\* line.rstrip('\n')
RECURSIVE RStripNL(_)
RStripNL(s) ==
    IF s # <<>> /\ Last(s).t = "nl" THEN RStripNL(SubSeq(s, 1, Len(s) - 1)) ELSE s

StartsWith(s, t) == s # <<>> /\ Head(s).t = t

HasComma(s) == \E k \in 1..Len(s) : s[k].t = "comma"

(***************************************************************************)
(* find_comment_issues                                                     *)
(***************************************************************************)
CommentIssue(token) ==
    LET comment_text == StripWs(token.string) IN
    IF TextLen(comment_text) > CommentTextLimit
        THEN Finding(token.line, "comment_long", 0)
        ELSE Finding(token.line, "comment_extraneous", 0)

RECURSIVE FindCommentIssues(_)
FindCommentIssues(toks) ==
    IF toks = <<>> THEN <<>>
    ELSE (IF Head(toks).type = "COMMENT" THEN <<CommentIssue(Head(toks))>> ELSE <<>>)
         \o FindCommentIssues(Tail(toks))

(***************************************************************************)
(* find_line_length_issues                                                 *)
(***************************************************************************)
\* the length of the left-trimmed line instead of the raw line
LineLengthIssue_Trimmed(line_no, line) ==
    LET raw_line == LStripWs(RStripNL(line)) IN
    IF StripWs(raw_line) = <<>> THEN <<>>
    ELSE IF StartsWith(raw_line, "hash")
        THEN (IF TextLen(raw_line) > CommentLineLimit
                 THEN <<Finding(line_no, "line_comment_long", 0)>> ELSE <<>>)
        ELSE (IF TextLen(raw_line) > CodeLimit
                 THEN <<Finding(line_no, "line_code_long", 0)>> ELSE <<>>)

LineLengthIssue(line_no, line) ==
    LET raw_line == RStripNL(line) IN
    IF StripWs(raw_line) = <<>> THEN <<>>
    ELSE IF StartsWith(LStripWs(raw_line), "hash")
        THEN (IF TextLen(raw_line) > CommentLineLimit
                 THEN <<Finding(line_no, "line_comment_long", 0)>> ELSE <<>>)
        ELSE (IF TextLen(raw_line) > CodeLimit
                 THEN <<Finding(line_no, "line_code_long", 0)>> ELSE <<>>)

RECURSIVE FindLineLengthIssues(_, _)
FindLineLengthIssues(ls, line_no) ==
    IF line_no > Len(ls) THEN <<>>
    ELSE LineLengthIssue(line_no, ls[line_no]) \o FindLineLengthIssues(ls, line_no + 1)

(***************************************************************************)
(* find_import_issues                                                      *)
(***************************************************************************)
\* the chunks at which ' import ' occurs in s
ImportAt(s) ==
    {k \in 1..(Len(s) - 2) :
        s[k].t = "sp" /\ s[k + 1].t = "import" /\ s[k + 2].t = "sp"}

Min(S) == CHOOSE x \in S : \A y \in S : x <= y

ImportIssue(line_no, line) ==
    LET stripped == StripWs(line) IN
    IF Len(stripped) >= 2 /\ stripped[1].t = "import" /\ stripped[2].t = "sp"
        THEN (IF HasComma(SubSeq(stripped, 2, Len(stripped)))
                 THEN <<Finding(line_no, "import_multi", 0)>> ELSE <<>>)
    ELSE IF Len(stripped) >= 2 /\ stripped[1].t = "from" /\ stripped[2].t = "sp"
            /\ ImportAt(stripped) # {}
        THEN (IF HasComma(SubSeq(stripped, Min(ImportAt(stripped)) + 2, Len(stripped)))
                 THEN <<Finding(line_no, "from_multi", 0)>> ELSE <<>>)
    ELSE <<>>

RECURSIVE FindImportIssues(_, _)
FindImportIssues(ls, line_no) ==
    IF line_no > Len(ls) THEN <<>>
    ELSE ImportIssue(line_no, ls[line_no]) \o FindImportIssues(ls, line_no + 1)

(***************************************************************************)
(* all_issues.sort(key=lambda x: x[0]): list.sort is stable; here as an    *)
(* insertion sort that puts each finding after those of a line <= its own. *)
(***************************************************************************)
\* a sort that is not stable: a finding goes before those of its own line
RECURSIVE InsertByLine_Unstable(_, _)
InsertByLine_Unstable(sorted, f) ==
    IF sorted = <<>> THEN <<f>>
    ELSE IF Last(sorted).line < f.line THEN Append(sorted, f)
    ELSE Append(InsertByLine_Unstable(SubSeq(sorted, 1, Len(sorted) - 1), f),
                Last(sorted))

RECURSIVE InsertByLine(_, _)
InsertByLine(sorted, f) ==
    IF sorted = <<>> THEN <<f>>
    ELSE IF Last(sorted).line <= f.line THEN Append(sorted, f)
    ELSE Append(InsertByLine(SubSeq(sorted, 1, Len(sorted) - 1), f), Last(sorted))

RECURSIVE SortFrom(_, _)
SortFrom(sorted, rest) ==
    IF rest = <<>> THEN sorted
    ELSE SortFrom(InsertByLine(sorted, Head(rest)), Tail(rest))

SortByLine(s) == SortFrom(<<>>, s)

\* run_snark_linter's merge
AllIssues(ast_issues, c_issues, l_issues, i_issues) ==
    SortByLine(ast_issues \o c_issues \o l_issues \o i_issues)

\* e.lineno taken as it is
SyntaxErrorIssues_NoDefault(lineno) == <<Finding(lineno, "syntax_error", 0)>>

\* run_snark_linter's except SyntaxError
SyntaxErrorIssues(lineno) ==
    LET line_number == IF lineno # 0 THEN lineno ELSE 1 IN
    <<Finding(line_number, "syntax_error", 0)>>

(***************************************************************************)
(* The tree.  tree[1] is the Module; the children of node i are the nodes  *)
(* one level deeper that follow it before the next node not deeper than i. *)
(***************************************************************************)
InSubtree(t, i, j) == j > i /\ \A k \in (i + 1)..j : t[k].depth > t[i].depth

Children(t, i) ==
    LET IsChild(j) == InSubtree(t, i, j) /\ t[j].depth = t[i].depth + 1
    IN SelectSeq([j \in 1..Len(t) |-> j], IsChild)

Ancestors(t, j) == {i \in 1..Len(t) : InSubtree(t, i, j)}

IsLoop(node) == node.kind \in {"For", "While"}

\* the kinds SnarkLinter has a visit_ method for
Specialised == {"ClassDef", "FunctionDef", "Assign", "For", "While"}

(***************************************************************************)
(* The Python frames the visit holds: visit and generic_visit for every    *)
(* node in progress, and the visit_ method between them where there is one.*)
(***************************************************************************)
RECURSIVE FramesUsed(_, _)
FramesUsed(t, st) ==
    IF st = <<>> THEN 0
    ELSE (IF t[Head(st).node].kind \in Specialised THEN 3 ELSE 2) + FramesUsed(t, Tail(st))

CanCall(k) == FramesUsed(tree, stack) + k <= RecursionLimit

Top == stack[Len(stack)]

\* the node generic_visit is about to call visit on
NextNode == Head(Top.todo)

Visiting(kind) ==
    /\ pc = "visit"
    /\ stack # <<>>
    /\ Top.todo # <<>>
    /\ tree[NextNode].kind = kind

\* generic_visit(node) of the node just entered, or the RecursionError of that call
Descend(n, frames) ==
    IF CanCall(frames)
        THEN /\ stack' = Append([stack EXCEPT ![Len(stack)].todo = Tail(@)],
                                [node |-> n, todo |-> Children(tree, n)])
             /\ UNCHANGED <<pc, error>>
        ELSE /\ stack' = <<>>
             /\ pc' = "raised"
             /\ error' = "RecursionError"

\* a visit returns to the generic_visit that called it, or to run_snark_linter
Return ==
    /\ stack' = SubSeq(stack, 1, Len(stack) - 1)
    /\ pc' = IF Len(stack) = 1 THEN "comment" ELSE pc

Returning(kinds) ==
    /\ pc = "visit"
    /\ stack # <<>>
    /\ Top.todo = <<>>
    /\ tree[Top.node].kind \in kinds

(***************************************************************************)
(* The inputs the model draws from.                                        *)
(***************************************************************************)
NoDoc == [has |-> FALSE, text |-> <<>>]

Doc(text) == [has |-> TRUE, text |-> text]

Name(id) == [isName |-> TRUE, id |-> id]

\* a target that is no Name (a.b, a[0], a tuple)
NotName == [isName |-> FALSE, id |-> <<>>]

Node(kind, depth, line, name, doc, targets) ==
    [kind |-> kind, depth |-> depth, line |-> line, name |-> name, doc |-> doc,
     targets |-> targets]

Module == Node("Module", 0, 0, <<>>, NoDoc, <<>>)

\* a statement as the shape families write it: def b, class Ab, b = ...
Stmt(kind, depth, line) ==
    Node(kind, depth, line,
         CASE kind = "FunctionDef" -> <<"b">> [] kind = "ClassDef" -> <<"A", "b">>
           [] OTHER -> <<>>,
         NoDoc,
         IF kind = "Assign" THEN <<Name(<<"b">>)>> ELSE <<>>)

StmtKinds == {"ClassDef", "FunctionDef", "Assign", "For", "While", "Other"}

\* the pre-order depth vectors of n statements below the Module
Shapes(n) ==
    {d \in [1..n -> 1..n] :
        /\ d[1] = 1
        /\ \A k \in 1..(n - 1) : d[k + 1] <= d[k] + 1}

\* an Assign holds no statement
AssignsAreLeaves(d, k, n) == \A i \in 1..(n - 1) : k[i] = "Assign" => d[i + 1] <= d[i]

\* the tree of n statements of depths d and kinds k, one to a line
ShapeTree(d, k, n) == <<Module>> \o [i \in 1..n |-> Stmt(k[i], d[i], i)]

\* the trees that are one chain of statements, each in the one before
ChainKinds == {"FunctionDef", "For", "While", "Other"}

ChainTree(k, n) == <<Module>> \o [i \in 1..n |-> Stmt(k[i], i, i)]

\* identifiers: no digit first
NameChars == {"A", "b", "1", "_"}

Names ==
    {s \in UNION {[1..n -> NameChars] : n \in 1..MaxNameLen} : ~IsDigit(s[1])}

NameTrees ==
    {<<Module, Node(kind, 1, 1, name, NoDoc, <<>>)>> :
        <<kind, name>> \in {"ClassDef", "FunctionDef"} \X Names}

\* string literals of one line: a first character, a filling, a last one
DocChars == {"H", "i", ".", "!", "?", " "}

Filling(n) == [i \in 1..n |-> "i"]

DocTexts ==
    {<<>>} \cup {<<c>> : c \in DocChars}
    \cup {<<c[1]>> \o Filling(n) \o <<c[2]>> :
            <<c, n>> \in (DocChars \X DocChars) \X (0..MaxDocPad)}

Docs == {NoDoc} \cup {Doc(text) : text \in DocTexts}

DocTrees ==
    {<<Module, Node(kind, 1, 1, IF kind = "ClassDef" THEN <<"A", "b">> ELSE <<"b">>,
                    doc, <<>>)>> :
        <<kind, doc>> \in {"ClassDef", "FunctionDef"} \X Docs}

Targets == {Name(<<"b">>), Name(<<"A">>), Name(<<"_">>), Name(<<"b", "b">>), NotName}

AssignTrees ==
    {<<Module, Node("Assign", 1, 1, <<>>, NoDoc, ts)>> :
        ts \in UNION {[1..n -> Targets] : n \in 1..2}}

Chunk(t, n) == [t |-> t, n |-> n]

Run(t, n) == IF n = 0 THEN <<>> ELSE <<Chunk(t, n)>>

NL == <<Chunk("nl", 1)>>

\* a line nothing is said about, for each line of a tree
PlainLine == <<Chunk("ch", 1)>> \o NL

PlainLines(t) == [i \in 1..(Len(t) - 1) |-> PlainLine]

\* the lengths around the two limits
Lengths == {1} \cup ((CommentLineLimit - 1)..(CommentLineLimit + 1))
              \cup ((CodeLimit - 1)..(CodeLimit + 1))

\* lines of a given raw length: comments, code, code before blanks, blanks
LengthLines ==
    {Run("sp", i) \o <<Chunk("hash", 1)>> \o Run("ch", len - i - 1) :
        <<i, len>> \in {<<i, len>> \in (0..MaxIndent) \X Lengths : len - i >= 1}}
    \cup {Run("sp", i) \o Run("ch", len - i) :
        <<i, len>> \in {<<i, len>> \in (0..MaxIndent) \X Lengths : len - i >= 1}}
    \cup {Run("sp", i) \o <<Chunk("ch", 1)>> \o Run("sp", len - i - 1) :
        <<i, len>> \in {<<i, len>> \in (0..MaxIndent) \X Lengths : len - i >= 1}}
    \cup {Run("sp", len) : len \in {0} \cup Lengths}

ImportLines ==
    {Run("sp", i) \o body :
        <<i, body>> \in (0..MaxIndent) \X
            {<<Chunk("import", 1), Chunk("sp", 1), Chunk("ch", 1)>>,
             <<Chunk("import", 1), Chunk("sp", 1), Chunk("ch", 1), Chunk("comma", 1),
               Chunk("sp", 1), Chunk("ch", 1)>>,
             <<Chunk("import", 1), Chunk("ch", 1), Chunk("comma", 1), Chunk("ch", 1)>>,
             <<Chunk("from", 1), Chunk("sp", 1), Chunk("ch", 1), Chunk("sp", 1),
               Chunk("import", 1), Chunk("sp", 1), Chunk("ch", 1)>>,
             <<Chunk("from", 1), Chunk("sp", 1), Chunk("ch", 1), Chunk("sp", 1),
               Chunk("import", 1), Chunk("sp", 1), Chunk("ch", 1), Chunk("comma", 1),
               Chunk("ch", 1)>>,
             <<Chunk("from", 1), Chunk("sp", 1), Chunk("ch", 1), Chunk("comma", 1),
               Chunk("ch", 1), Chunk("sp", 1), Chunk("import", 1), Chunk("sp", 1),
               Chunk("ch", 1)>>,
             <<Chunk("from", 1), Chunk("sp", 1), Chunk("ch", 1), Chunk("comma", 1),
               Chunk("ch", 1)>>,
             <<Chunk("import", 1), Chunk("sp", 1), Chunk("ch", 1), Chunk("comma", 1),
               Chunk("ch", CodeLimit)>>}}

\* the last line of a file may lack its line end
LastLines == {l \o e : <<l, e>> \in (LengthLines \cup ImportLines) \X {<<>>, NL}}

FirstLines == {PlainLine, NL, Run("ch", CodeLimit + 1) \o NL}

LineFiles ==
    {first \o <<last>> :
        <<first, last>> \in
            (UNION {[1..n -> FirstLines] : n \in 0..(MaxLines - 1)}) \X LastLines}

\* COMMENT tokens of a stripped length around the limit, and another token
TokenSet ==
    {[type |-> "COMMENT", line |-> line,
      string |-> <<Chunk("hash", 1)>> \o Run("ch", len - 1) \o Run("sp", trail)] :
        <<line, len, trail>> \in
            (1..MaxLines) \X {1, CommentTextLimit, CommentTextLimit + 1} \X {0, 1}}
    \cup {[type |-> "NAME", line |-> 1, string |-> <<Chunk("ch", 1)>>]}

TokenSeqs == UNION {[1..n -> TokenSet] : n \in 0..MaxTokens}

\* the inputs of the merge: findings of every pass on the same lines
MergeTrees ==
    {<<Module, Stmt("FunctionDef", 1, 1), Stmt("For", 2, 2), Stmt("While", 3, 3)>>,
     <<Module, Stmt("For", 1, 1), Stmt("For", 2, 1), Stmt("Assign", 3, 2)>>}

MergeTokens ==
    {[type |-> "COMMENT", line |-> line, string |-> <<Chunk("hash", 1)>>] :
        line \in 1..MaxLines}

MergeLines ==
    {PlainLine,
     Run("ch", CodeLimit + 1) \o NL,
     <<Chunk("import", 1), Chunk("sp", 1), Chunk("ch", 1), Chunk("comma", 1),
       Chunk("ch", CodeLimit)>> \o NL}

Start ==
    /\ pc = "start"
    /\ error = "none"
    /\ stack = <<>>
    /\ loop_depth = 0
    /\ issues = <<>>
    /\ comment_issues = <<>>
    /\ length_issues = <<>>
    /\ import_issues = <<>>
    /\ result = <<>>

\* a file that parses, seen through its tree alone
InitTree ==
    /\ file_exists = TRUE
    /\ parse_ok = TRUE
    /\ err_lineno = 0
    /\ \/ \E n \in 1..MaxNodes : \E d \in Shapes(n) : \E k \in [1..n -> StmtKinds] :
              AssignsAreLeaves(d, k, n) /\ tree = ShapeTree(d, k, n)
       \/ \E n \in 1..MaxChain : \E k \in [1..n -> ChainKinds] : tree = ChainTree(k, n)
       \/ tree \in NameTrees \cup DocTrees \cup AssignTrees
    /\ tokens = <<>>
    /\ tok_fails = FALSE
    /\ lines = PlainLines(tree)

\* a file that parses, seen through its lines alone
InitLines ==
    /\ file_exists = TRUE
    /\ parse_ok = TRUE
    /\ err_lineno = 0
    /\ tree = <<Module>>
    /\ tokens = <<>>
    /\ tok_fails = FALSE
    /\ lines \in LineFiles

\* a file that parses, seen through its tokens alone
InitTokens ==
    /\ file_exists = TRUE
    /\ parse_ok = TRUE
    /\ err_lineno = 0
    /\ tree = <<Module>>
    /\ tokens \in TokenSeqs
    /\ tok_fails \in BOOLEAN
    /\ lines = <<>>

\* a file that parses, with findings of every pass
InitMerge ==
    /\ file_exists = TRUE
    /\ parse_ok = TRUE
    /\ err_lineno = 0
    /\ tree \in MergeTrees
    /\ tokens \in UNION {[1..n -> MergeTokens] : n \in 0..MaxTokens}
    /\ tok_fails \in BOOLEAN
    /\ lines \in UNION {[1..n -> MergeLines] : n \in 1..MaxLines}

\* a file that does not parse, whatever else it holds
InitSyntaxError ==
    /\ file_exists = TRUE
    /\ parse_ok = FALSE
    /\ err_lineno \in 0..MaxErrLine
    /\ tree = <<>>
    /\ tokens \in UNION {[1..n -> MergeTokens] : n \in 0..MaxTokens}
    /\ tok_fails \in BOOLEAN
    /\ lines \in UNION {[1..n -> MergeLines] : n \in 1..MaxLines}

InitMissing ==
    /\ file_exists = FALSE
    /\ parse_ok = FALSE
    /\ err_lineno = 0
    /\ tree = <<>>
    /\ tokens = <<>>
    /\ tok_fails = FALSE
    /\ lines = <<>>

Init ==
    /\ Start
    /\ \/ InitTree
       \/ InitLines
       \/ InitTokens
       \/ InitMerge
       \/ InitSyntaxError
       \/ InitMissing

(***************************************************************************)
(* run_snark_linter                                                        *)
(***************************************************************************)
MissingFile ==
    /\ pc = "start"
    /\ ~file_exists
    /\ pc' = "raised"
    /\ error' = "FileNotFoundError"
    /\ UNCHANGED <<inputs, stack, loop_depth, issues, comment_issues, length_issues,
                   import_issues, result>>

ParseFails ==
    /\ pc = "start"
    /\ file_exists
    /\ ~parse_ok
    /\ result' = SyntaxErrorIssues(err_lineno)
    /\ pc' = "done"
    /\ UNCHANGED <<inputs, error, stack, loop_depth, issues, comment_issues,
                   length_issues, import_issues>>

\* tree = ast.parse(...); linter = SnarkLinter(file_path); linter.visit(tree)
ParseOk ==
    /\ pc = "start"
    /\ file_exists
    /\ parse_ok
    /\ stack' = <<[node |-> 1, todo |-> Children(tree, 1)]>>
    /\ pc' = "visit"
    /\ UNCHANGED <<inputs, error, loop_depth, issues, comment_issues, length_issues,
                   import_issues, result>>

\* the call of visit, or of the visit_ method, exceeds the recursion limit
VisitRaises ==
    /\ pc = "visit"
    /\ stack # <<>>
    /\ Top.todo # <<>>
    /\ ~CanCall(2)
    /\ stack' = <<>>
    /\ pc' = "raised"
    /\ error' = "RecursionError"
    /\ UNCHANGED <<inputs, loop_depth, issues, comment_issues, length_issues,
                   import_issues, result>>

VisitClassDef ==
    /\ Visiting("ClassDef")
    /\ CanCall(2)
    /\ issues' = issues \o ClassDefIssues(tree[NextNode], NextNode)
    /\ Descend(NextNode, 3)
    /\ UNCHANGED <<inputs, loop_depth, comment_issues, length_issues, import_issues,
                   result>>

VisitFunctionDef ==
    /\ Visiting("FunctionDef")
    /\ CanCall(2)
    /\ issues' = issues \o FunctionDefIssues(tree[NextNode], NextNode)
    /\ Descend(NextNode, 3)
    /\ UNCHANGED <<inputs, loop_depth, comment_issues, length_issues, import_issues,
                   result>>

VisitAssign ==
    /\ Visiting("Assign")
    /\ CanCall(2)
    /\ issues' = issues \o AssignIssues(tree[NextNode], NextNode, 1)
    /\ Descend(NextNode, 3)
    /\ UNCHANGED <<inputs, loop_depth, comment_issues, length_issues, import_issues,
                   result>>

VisitFor ==
    /\ Visiting("For")
    /\ CanCall(2)
    /\ loop_depth' = EnterLoop(loop_depth)
    /\ issues' = issues \o LoopIssues(tree[NextNode], NextNode, loop_depth', "nested_for")
    /\ Descend(NextNode, 3)
    /\ UNCHANGED <<inputs, comment_issues, length_issues, import_issues, result>>

VisitWhile ==
    /\ Visiting("While")
    /\ CanCall(2)
    /\ loop_depth' = EnterLoop(loop_depth)
    /\ issues' = issues \o LoopIssues(tree[NextNode], NextNode, loop_depth', "nested_while")
    /\ Descend(NextNode, 3)
    /\ UNCHANGED <<inputs, comment_issues, length_issues, import_issues, result>>

\* NodeVisitor.visit of a node without a visit_ method: generic_visit
VisitOther ==
    /\ Visiting("Other")
    /\ CanCall(2)
    /\ Descend(NextNode, 2)
    /\ UNCHANGED <<inputs, loop_depth, issues, comment_issues, length_issues,
                   import_issues, result>>

\* visit_For after its generic_visit
ReturnFor ==
    /\ Returning({"For"})
    /\ loop_depth' = LeaveLoop(loop_depth)
    /\ Return
    /\ UNCHANGED <<inputs, error, issues, comment_issues, length_issues,
                   import_issues, result>>

\* visit_While after its generic_visit
ReturnWhile ==
    /\ Returning({"While"})
    /\ loop_depth' = LeaveLoop(loop_depth)
    /\ Return
    /\ UNCHANGED <<inputs, error, issues, comment_issues, length_issues,
                   import_issues, result>>

ReturnOther ==
    /\ Returning({"Module", "ClassDef", "FunctionDef", "Assign", "Other"})
    /\ Return
    /\ UNCHANGED <<inputs, error, loop_depth, issues, comment_issues, length_issues,
                   import_issues, result>>

\* comment_issues = find_comment_issues(file_path): no handler around tokenize
CommentScan ==
    /\ pc = "comment"
    /\ IF tok_fails
          THEN /\ pc' = "raised"
               /\ error' = "TokenizeError"
               /\ UNCHANGED comment_issues
          ELSE /\ comment_issues' = FindCommentIssues(tokens)
               /\ pc' = "length"
               /\ UNCHANGED error
    /\ UNCHANGED <<inputs, stack, loop_depth, issues, length_issues, import_issues,
                   result>>

LengthScan ==
    /\ pc = "length"
    /\ length_issues' = FindLineLengthIssues(lines, 1)
    /\ pc' = "import"
    /\ UNCHANGED <<inputs, error, stack, loop_depth, issues, comment_issues,
                   import_issues, result>>

ImportScan ==
    /\ pc = "import"
    /\ import_issues' = FindImportIssues(lines, 1)
    /\ pc' = "merge"
    /\ UNCHANGED <<inputs, error, stack, loop_depth, issues, comment_issues,
                   length_issues, result>>

Merge ==
    /\ pc = "merge"
    /\ result' = AllIssues(issues, comment_issues, length_issues, import_issues)
    /\ pc' = "done"
    /\ UNCHANGED <<inputs, error, stack, loop_depth, issues, comment_issues,
                   length_issues, import_issues>>

Next ==
    \/ MissingFile
    \/ ParseFails
    \/ ParseOk
    \/ VisitRaises
    \/ VisitClassDef
    \/ VisitFunctionDef
    \/ VisitAssign
    \/ VisitFor
    \/ VisitWhile
    \/ VisitOther
    \/ ReturnFor
    \/ ReturnWhile
    \/ ReturnOther
    \/ CommentScan
    \/ LengthScan
    \/ ImportScan
    \/ Merge

Spec == Init /\ [][Next]_vars

(***************************************************************************)
(* What the claims speak of.                                               *)
(***************************************************************************)
\* linter.visit(tree) has returned: issues is what the tree rules found
VisitDone == parse_ok /\ pc \in {"comment", "length", "import", "merge", "done"}

\* run_snark_linter has returned the merged list
Returned == parse_ok /\ pc = "done"

\* where in a list the findings with a property are
Where(list, Test(_)) == {k \in 1..Len(list) : Test(list[k])}

TreeMsgs == {"class_name", "doc_missing", "doc_short", "doc_cap", "doc_end",
             "function_exists", "function_name", "single_letter", "nested_for",
             "nested_while"}

\* the pass a finding comes from: 1 tree rules, 2 comment scan, 3 line-length
\* scan, 4 import scan
PassOf(f) ==
    CASE f.msg \in TreeMsgs -> 1
      [] f.msg \in {"comment_long", "comment_extraneous"} -> 2
      [] f.msg \in {"line_comment_long", "line_code_long"} -> 3
      [] f.msg \in {"import_multi", "from_multi"} -> 4
      [] OTHER -> 0

PassList(p) ==
    CASE p = 1 -> issues [] p = 2 -> comment_issues [] p = 3 -> length_issues
      [] p = 4 -> import_issues

\* C1: the list run_snark_linter returns for a source that parses is sorted
\* non-decreasing by line; findings of one line come in pass order (tree
\* rules, comment scan, line-length scan, import scan), and those of one pass
\* and one line in the order the pass produced them.
C1_SortedStable ==
    Returned =>
        /\ \A k \in 1..(Len(result) - 1) :
              \/ result[k].line < result[k + 1].line
              \/ /\ result[k].line = result[k + 1].line
                 /\ PassOf(result[k]) <= PassOf(result[k + 1])
        /\ \A p \in 1..4 : \A n \in {f.line : f \in {result[k] : k \in 1..Len(result)}} :
              LET Here(f) == f.line = n /\ PassOf(f) = p
              IN SelectSeq(result, Here) = SelectSeq(PassList(p), Here)
        /\ Len(result) = Len(issues) + Len(comment_issues) + Len(length_issues)
                         + Len(import_issues)

\* the four passes each have a finding on one line, and the sort moved findings
C1_Witness ==
    /\ Returned
    /\ \E n \in 1..MaxLines : \A p \in 1..4 :
          \E k \in 1..Len(result) : result[k].line = n /\ PassOf(result[k]) = p
    /\ result # issues \o comment_issues \o length_issues \o import_issues

\* C2: when the source does not parse, run_snark_linter returns exactly one
\* finding, at the line the parser reported (1 when it reported none), and
\* no pass (tree visitor, comment scan, line-length scan, import scan) has
\* contributed a finding, whatever else the source holds.
C2_SyntaxErrorOnly ==
    (file_exists /\ ~parse_ok) =>
        /\ issues = <<>> /\ comment_issues = <<>> /\ length_issues = <<>>
        /\ import_issues = <<>>
        /\ pc \in {"start", "done"}
        /\ pc = "done" =>
              /\ Len(result) = 1
              /\ result[1].msg = "syntax_error"
              /\ err_lineno >= 1 => result[1].line = err_lineno
              /\ err_lineno = 0 => result[1].line = 1

\* the parser reported no line, and the source holds comments, long lines and
\* import lines the other passes would report
C2_Witness ==
    /\ file_exists /\ ~parse_ok /\ pc = "done"
    /\ err_lineno = 0
    /\ FindCommentIssues(tokens) # <<>>
    /\ FindLineLengthIssues(lines, 1) # <<>>
    /\ FindImportIssues(lines, 1) # <<>>
    /\ Len(result) = 1

\* C3: when the source parses and the tokenizer raises, the comment scan
\* contributes nothing and the run still completes with the findings of the
\* other passes: the tokenizer's failure does not end the run.
C3_TokenizerFailureSilent ==
    (parse_ok /\ tok_fails) => ~(pc = "raised" /\ error = "TokenizeError")

\* the loops with a loop among their ancestors
Nested(i) == \E a \in Ancestors(tree, i) : IsLoop(tree[a])

NestingOf(i) ==
    LET Mine(f) == f.node = i /\ f.msg \in {"nested_for", "nested_while"}
    IN Where(issues, Mine)

\* C4: once the visit is complete, a for or while loop has a nesting finding
\* iff a for or while loop encloses it; the finding is at the loop's own line,
\* and a loop has at most one.
C4_NestingFindings ==
    VisitDone =>
        \A i \in 1..Len(tree) :
            /\ Cardinality(NestingOf(i)) = IF IsLoop(tree[i]) /\ Nested(i) THEN 1 ELSE 0
            /\ \A k \in NestingOf(i) :
                  /\ issues[k].line = tree[i].line
                  /\ issues[k].msg = IF tree[i].kind = "For" THEN "nested_for"
                                                             ELSE "nested_while"

\* three loops, each in the one before: two nesting findings
C4_Witness ==
    /\ VisitDone
    /\ Len(tree) = 4
    /\ \A i \in 2..4 : IsLoop(tree[i]) /\ tree[i].depth = i - 1
    /\ NestingOf(2) = {} /\ NestingOf(3) # {} /\ NestingOf(4) # {}

\* C5: the loop depth counter is restored on every way out of a loop visit,
\* whether the visit below it returned or raised: with no visit in progress
\* it is 0 again.
C5_DepthRestored == stack = <<>> => loop_depth = 0

\* CapWords as the claim reads it: an uppercase letter, then letters or digits
CapWordsName(name) ==
    /\ IsUpper(name[1])
    /\ \A k \in 2..Len(name) : IsAlpha(name[k]) \/ IsDigit(name[k])

\* C6: a class has a naming finding at its line iff its name is not an
\* uppercase letter followed by zero or more letters or digits.
C6_CapWordsNaming ==
    VisitDone =>
        \A i \in 1..Len(tree) : tree[i].kind = "ClassDef" =>
            LET Mine(f) == f.node = i /\ f.msg = "class_name"
            IN /\ Cardinality(Where(issues, Mine)) =
                      IF CapWordsName(tree[i].name) THEN 0 ELSE 1
               /\ \A k \in Where(issues, Mine) : issues[k].line = tree[i].line

Has(i, msg) == \E k \in 1..Len(issues) : issues[k].node = i /\ issues[k].msg = msg

Count(i, msg) ==
    LET Mine(f) == f.node = i /\ f.msg = msg IN Cardinality(Where(issues, Mine))

IsDef(node) == node.kind \in {"ClassDef", "FunctionDef"}

\* the findings of the docstring rules for definition i, given the text the
\* rules are said to judge
DocstringRulesOn(i, text) ==
    IF text = <<>>
        THEN /\ Count(i, "doc_missing") = 1
             /\ ~Has(i, "doc_short") /\ ~Has(i, "doc_cap") /\ ~Has(i, "doc_end")
        ELSE /\ ~Has(i, "doc_missing")
             /\ Count(i, "doc_short") = IF Len(text) < 10 THEN 1 ELSE 0
             /\ Count(i, "doc_cap") = IF text[1] \in UpperChars THEN 0 ELSE 1
             /\ Count(i, "doc_end") = IF text[Len(text)] \in {".", "!", "?"} THEN 0 ELSE 1

\* the docstring as ast.get_docstring returns it for a literal of one line:
\* the literal from its first character that is not a blank
FirstNonBlank(text) ==
    CHOOSE k \in 1..(Len(text) + 1) :
        /\ \A j \in 1..(k - 1) : text[j] = " "
        /\ k <= Len(text) => text[k] # " "

Cleaned(doc) ==
    IF doc.has THEN SubSeq(doc.text, FirstNonBlank(doc.text), Len(doc.text)) ELSE <<>>

C7_Combination(short, cap, end) ==
    /\ VisitDone
    /\ \E i \in 1..Len(tree) :
          /\ IsDef(tree[i]) /\ Cleaned(tree[i].doc) # <<>>
          /\ Has(i, "doc_short") = short
          /\ Has(i, "doc_cap") = cap
          /\ Has(i, "doc_end") = end

C7_Witness_SCe == C7_Combination(TRUE, TRUE, FALSE)
C7_Witness_ScE == C7_Combination(TRUE, FALSE, TRUE)
C7_Witness_Sce == C7_Combination(TRUE, FALSE, FALSE)
C7_Witness_sCE == C7_Combination(FALSE, TRUE, TRUE)
C7_Witness_sCe == C7_Combination(FALSE, TRUE, FALSE)
C7_Witness_scE == C7_Combination(FALSE, FALSE, TRUE)
C7_Witness_sce == C7_Combination(FALSE, FALSE, FALSE)

IsHi(node) == node.kind = "FunctionDef" /\ node.doc = Doc(<<"H", "i", ".">>)

\* C8 as stated: a function whose first statement is the literal "Hi." has
\* no docstring-shape finding.
C8_HiNoShapeFinding ==
    VisitDone =>
        \A i \in 1..Len(tree) : IsHi(tree[i]) =>
            ~Has(i, "doc_short") /\ ~Has(i, "doc_cap") /\ ~Has(i, "doc_end")

\* C8 amended: such a function has exactly one docstring-shape finding, the
\* too-short one (3 characters are fewer than 10), and neither the
\* capitalisation nor the punctuation finding.
C8_HiTooShortOnly ==
    VisitDone =>
        \A i \in 1..Len(tree) : IsHi(tree[i]) =>
            /\ Count(i, "doc_short") = 1
            /\ ~Has(i, "doc_cap") /\ ~Has(i, "doc_end") /\ ~Has(i, "doc_missing")

C8_Witness ==
    VisitDone /\ \E i \in 1..Len(tree) : IsHi(tree[i]) /\ Has(i, "doc_short")

ExistenceOf(i) ==
    LET Mine(f) == f.node = i /\ f.msg = "function_exists" IN Where(issues, Mine)

\* C9: every function definition of the tree, at any depth, whatever its name
\* and docstring, has exactly one existence finding, at its own line, once the
\* visit is complete, and never more; the finding comes in the visitor's list
\* before every finding of a node inside the function.
C9_ExistenceFirst ==
    /\ \A k \in 1..Len(issues) : issues[k].msg = "function_exists" =>
          /\ tree[issues[k].node].kind = "FunctionDef"
          /\ issues[k].line = tree[issues[k].node].line
    /\ \A i \in 1..Len(tree) : tree[i].kind = "FunctionDef" =>
          /\ Cardinality(ExistenceOf(i)) <= 1
          /\ VisitDone => Cardinality(ExistenceOf(i)) = 1
          /\ \A k \in 1..Len(issues) : i \in Ancestors(tree, issues[k].node) =>
                \E e \in ExistenceOf(i) : e < k

\* a function inside another statement, with a finding of a node inside it
C9_Witness ==
    /\ VisitDone
    /\ \E i \in 1..Len(tree) :
          /\ tree[i].kind = "FunctionDef" /\ tree[i].depth >= 2
          /\ \E k \in 1..Len(issues) : i \in Ancestors(tree, issues[k].node)

\* the line as the claim reads it: its characters without the line end
CharsOf(line) ==
    {<<k, j>> \in (1..Len(line)) \X (1..(CodeLimit + 8)) :
        line[k].t # "nl" /\ j <= line[k].n * Width(line[k].t)}

IsBlankLine(line) == \A k \in 1..Len(line) : line[k].t \in {"sp", "nl"}

IsCommentLine(line) ==
    \E k \in 1..Len(line) :
        line[k].t = "hash" /\ \A j \in 1..(k - 1) : line[j].t = "sp"

LengthFindings(n) == LET Mine(f) == f.line = n IN Where(length_issues, Mine)

\* C10: the line-length scan has exactly one finding for a line iff the line
\* is not empty or blank and its raw length, leading blanks included, is
\* above its limit: 72 when the left-trimmed line starts with the comment
\* marker, 79 otherwise.
C10_LineLength ==
    (parse_ok /\ pc \in {"import", "merge", "done"}) =>
        /\ \A n \in 1..Len(lines) :
              LET long == /\ ~IsBlankLine(lines[n])
                          /\ Cardinality(CharsOf(lines[n])) >
                                IF IsCommentLine(lines[n]) THEN 72 ELSE 79
              IN /\ Cardinality(LengthFindings(n)) = IF long THEN 1 ELSE 0
                 /\ \A k \in LengthFindings(n) :
                       length_issues[k].msg =
                           IF IsCommentLine(lines[n]) THEN "line_comment_long"
                                                      ELSE "line_code_long"
        /\ \A k \in 1..Len(length_issues) : length_issues[k].line \in 1..Len(lines)

\* a line of the given kind and raw length, with the given number of findings
C10_Case(comment, len, findings) ==
    /\ parse_ok /\ pc = "done"
    /\ \E n \in 1..Len(lines) :
          /\ ~IsBlankLine(lines[n])
          /\ IsCommentLine(lines[n]) = comment
          /\ Cardinality(CharsOf(lines[n])) = len
          /\ Cardinality(LengthFindings(n)) = findings

C10_Witness == C10_Case(TRUE, 73, 1)

C10_Witness_Comment72 == C10_Case(TRUE, 72, 0)
C10_Witness_Code80 == C10_Case(FALSE, 80, 1)
C10_Witness_Code79 == C10_Case(FALSE, 79, 0)

====
